---- MODULE Spec2Model ----
(***************************************************************************)
(* A model of src/src/main.rs: the text-edit buffer (Input), the scroll    *)
(* state, the popup flag, the event loop run_app, the render pass ui and   *)
(* the terminal setup and teardown of main.                                 *)
(*                                                                         *)
(* A String is a sequence of Unicode scalar values (code points); its      *)
(* length in the sense of String::len is its number of UTF-8 bytes.        *)
(***************************************************************************)
EXTENDS Integers, Sequences, FiniteSets, TLC

\* ------------------------------------------------------------------ bounds

\* Most characters the buffer and the entry log hold together (typing stops there).
MaxChars == 3
\* Most entries the log is let to hold (submit stops there).
MaxMsgs == 2
\* Terminal heights range over 0..MaxHeight.
MaxHeight == 3
\* The terminal's width, in cells.
TermWidth == 80
\* The popup geometry is computed for terminals of 0..MaxRectWidth columns
\* (and of TermWidth columns) and 0..MaxRectHeight rows.
MaxRectWidth == 12
MaxRectHeight == 24

\* ------------------------------------------------------- values and helpers

Min(a, b) == IF a < b THEN a ELSE b
Max(a, b) == IF a > b THEN a ELSE b

\* The characters the match on key.code names: 'q' and 'f'.
CharQ == 113
CharF == 102
\* The characters typed into the buffer: 'f' and U+00E9 (233, two bytes).
TypedChars == {CharF, 233}

\* char::len_utf8
len_utf8(c) ==
    IF c < 128 THEN 1 ELSE IF c < 2048 THEN 2 ELSE IF c < 65536 THEN 3 ELSE 4

\* String::len: the number of bytes.
RECURSIVE string_len(_)
string_len(s) == IF s = <<>> THEN 0 ELSE len_utf8(Head(s)) + string_len(Tail(s))

\* str::chars().count()
chars_count(s) == Len(s)

\* Iterator::take(n) and Iterator::skip(n) over the elements of s, collected.
take(s, n) == SubSeq(s, 1, Min(n, Len(s)))
skip(s, n) == SubSeq(s, Min(n, Len(s)) + 1, Len(s))

\* str::is_char_boundary: byte index idx is the start of a character or the end.
is_char_boundary(s, idx) ==
    \E k \in 0..Len(s) : string_len(SubSeq(s, 1, k)) = idx

\* String::insert(idx, ch), for idx a character boundary (it panics otherwise):
\* the character lands at the BYTE offset idx.
string_insert(s, idx, ch) ==
    LET k == CHOOSE j \in 0..Len(s) : string_len(SubSeq(s, 1, j)) = idx
    IN  SubSeq(s, 1, k) \o <<ch>> \o SubSeq(s, k + 1, Len(s))

\* ------------------------------------------------------------------ Input

InputDefault ==
    [input |-> <<>>, input_mode |-> "Normal", messages |-> <<>>, cursor_position |-> 0]

AppNew == [show_popup |-> FALSE]

ScrollStateDefault == [vertical_scroll |-> 0]

\* usize::clamp(0, self.input.len()): the upper end is the length in bytes.
clamp_cursor(self, new_cursor_pos) ==
    Min(Max(new_cursor_pos, 0), string_len(self.input))

move_cursor_left(self) ==
    LET cursor_moved_left == Max(self.cursor_position - 1, 0)
    IN  [self EXCEPT !.cursor_position = clamp_cursor(self, cursor_moved_left)]

move_cursor_right(self) ==
    LET cursor_moved_right == self.cursor_position + 1
    IN  [self EXCEPT !.cursor_position = clamp_cursor(self, cursor_moved_right)]

\* String::insert asserts that the index is a character boundary.
enter_char_panics(self) == ~is_char_boundary(self.input, self.cursor_position)

enter_char(self, new_char) ==
    move_cursor_right(
        [self EXCEPT !.input = string_insert(self.input, self.cursor_position, new_char)])

delete_char(self) ==
    IF self.cursor_position # 0
    THEN LET current_index == self.cursor_position
             from_left_to_current_index == current_index - 1
             before_char_to_delete == take(self.input, from_left_to_current_index)
             after_char_to_delete == skip(self.input, current_index)
         IN  move_cursor_left(
                 [self EXCEPT !.input = before_char_to_delete \o after_char_to_delete])
    ELSE self

reset_cursor(self) == [self EXCEPT !.cursor_position = 0]

\* A submit that starts the log over with the submitted text.
submit_message_replacing(self) ==
    reset_cursor([self EXCEPT !.messages = <<self.input>>, !.input = <<>>])

submit_message(self) ==
    reset_cursor([self EXCEPT !.messages = Append(self.messages, self.input),
                              !.input = <<>>])

\* ----------------------------------------------------------------- events

\* What event::read() can return. A key event carries its code, the character
\* of KeyCode::Char (0 otherwise), the CONTROL modifier and its kind.
KeyEvent(code, ch, ctrl, kind) ==
    [type |-> "Key", code |-> code, ch |-> ch, ctrl |-> ctrl, kind |-> kind]
MouseEvent(kind) == [type |-> "Mouse", kind |-> kind]

KeyQuit == KeyEvent("Char", CharQ, FALSE, "Press")
KeyUp == KeyEvent("Up", 0, FALSE, "Press")
KeyDown == KeyEvent("Down", 0, FALSE, "Press")
KeyCtrlF == KeyEvent("Char", CharF, TRUE, "Press")
KeyEnter == KeyEvent("Enter", 0, FALSE, "Press")
KeyBackspace == KeyEvent("Backspace", 0, FALSE, "Press")
KeyLeft == KeyEvent("Left", 0, FALSE, "Press")
KeyRight == KeyEvent("Right", 0, FALSE, "Press")
KeyEsc == KeyEvent("Esc", 0, FALSE, "Press")
KeyUpReleased == KeyEvent("Up", 0, FALSE, "Release")
KeyChar(c) == KeyEvent("Char", c, FALSE, "Press")
MouseScrollDown == MouseEvent("ScrollDown")
MouseScrollUp == MouseEvent("ScrollUp")
MouseMoved == MouseEvent("Moved")
ResizeEvent == [type |-> "Resize"]

KeyEvents ==
    {KeyQuit, KeyUp, KeyDown, KeyCtrlF, KeyEnter, KeyBackspace, KeyLeft, KeyRight,
     KeyEsc, KeyUpReleased} \cup {KeyChar(c) : c \in TypedChars}
MouseEvents == {MouseScrollDown, MouseScrollUp, MouseMoved}
Events == KeyEvents \cup MouseEvents \cup {ResizeEvent}

Sizes == {[width |-> TermWidth, height |-> h] : h \in 0..MaxHeight}

\* ------------------------------------------------------------- the handlers

\* (input.messages.len() as i32 - terminal_size.height as i32).max(0) as usize
max_scroll_of(input, height) == Max(Len(input.messages) - height, 0)

scroll_up(scroll) ==
    IF scroll.vertical_scroll > 0
    THEN [scroll EXCEPT !.vertical_scroll = Max(scroll.vertical_scroll - 1, 0)]
    ELSE scroll

scroll_down(scroll, input, terminal_size) ==
    LET max_scroll == max_scroll_of(input, terminal_size.height)
    IN  IF scroll.vertical_scroll < max_scroll
        THEN [scroll EXCEPT !.vertical_scroll = scroll.vertical_scroll + 1]
        ELSE scroll

\* A toggle that forgets the input mode.
toggle_popup_flag_only(st) == [st EXCEPT !.app.show_popup = ~st.app.show_popup]

\* A toggle that also throws the draft away.
toggle_popup_clearing(st) ==
    [st EXCEPT !.app.show_popup = ~st.app.show_popup,
               !.input.input_mode =
                   IF st.input.input_mode = "Normal" THEN "Editing" ELSE "Normal",
               !.input.input = <<>>,
               !.input.cursor_position = 0]

toggle_popup(st) ==
    [st EXCEPT !.app.show_popup = ~st.app.show_popup,
               !.input.input_mode =
                   IF st.input.input_mode = "Normal" THEN "Editing" ELSE "Normal"]

\* The key match without the `match input.input_mode` guards of the editing
\* arms: every arm acts in every mode.
on_key_unguarded(st, terminal_size, key) ==
    IF key.kind # "Press" THEN st
    ELSE IF key.code = "Char" /\ key.ch = CharQ THEN [st EXCEPT !.flow = "return"]
    ELSE IF key.code = "Up" THEN [st EXCEPT !.scroll = scroll_up(st.scroll)]
    ELSE IF key.code = "Down"
        THEN [st EXCEPT !.scroll = scroll_down(st.scroll, st.input, terminal_size)]
    ELSE IF key.code = "Char" /\ key.ch = CharF /\ key.ctrl THEN toggle_popup(st)
    ELSE IF key.code = "Enter"
        THEN [st EXCEPT !.input = submit_message(st.input)]
    ELSE IF key.code = "Char"
        THEN IF enter_char_panics(st.input)
             THEN [st EXCEPT !.flow = "panic"]
             ELSE [st EXCEPT !.input = enter_char(st.input, key.ch)]
    ELSE IF key.code = "Backspace"
        THEN [st EXCEPT !.input = delete_char(st.input)]
    ELSE IF key.code = "Left"
        THEN [st EXCEPT !.input = move_cursor_left(st.input)]
    ELSE IF key.code = "Right"
        THEN [st EXCEPT !.input = move_cursor_right(st.input)]
    ELSE st

\* The loop's state is st = [app, input, scroll, flow]; flow says how the
\* iteration ends: "continue" (loop again), "return" (return Ok(())) or
\* "panic".  The match on key.code of a key event, arms in source order.
on_key(st, terminal_size, key) ==
    IF key.kind # "Press" THEN st
    ELSE IF key.code = "Char" /\ key.ch = CharQ THEN [st EXCEPT !.flow = "return"]
    ELSE IF key.code = "Up" THEN [st EXCEPT !.scroll = scroll_up(st.scroll)]
    ELSE IF key.code = "Down"
        THEN [st EXCEPT !.scroll = scroll_down(st.scroll, st.input, terminal_size)]
    ELSE IF key.code = "Char" /\ key.ch = CharF /\ key.ctrl THEN toggle_popup(st)
    ELSE IF key.code = "Enter"
        THEN IF st.input.input_mode = "Editing"
             THEN [st EXCEPT !.input = submit_message(st.input)] ELSE st
    ELSE IF key.code = "Char"
        THEN IF st.input.input_mode = "Editing"
             THEN IF enter_char_panics(st.input)
                  THEN [st EXCEPT !.flow = "panic"]
                  ELSE [st EXCEPT !.input = enter_char(st.input, key.ch)]
             ELSE st
    ELSE IF key.code = "Backspace"
        THEN IF st.input.input_mode = "Editing"
             THEN [st EXCEPT !.input = delete_char(st.input)] ELSE st
    ELSE IF key.code = "Left"
        THEN IF st.input.input_mode = "Editing"
             THEN [st EXCEPT !.input = move_cursor_left(st.input)] ELSE st
    ELSE IF key.code = "Right"
        THEN IF st.input.input_mode = "Editing"
             THEN [st EXCEPT !.input = move_cursor_right(st.input)] ELSE st
    ELSE st

\* The match on mouse_event.kind.
on_mouse(st, terminal_size, mouse_event) ==
    IF mouse_event.kind = "ScrollDown"
        THEN [st EXCEPT !.scroll = scroll_down(st.scroll, st.input, terminal_size)]
    ELSE IF mouse_event.kind = "ScrollUp"
        THEN [st EXCEPT !.scroll = scroll_up(st.scroll)]
    ELSE st

\* ------------------------------------------------------------ the render pass

\* chunks[1].height: the layout splits size shrunk by a margin of 1 on every
\* side (an area too small for the margin becomes the empty Rect).
pane_height(size) ==
    IF size.width < 2 \/ size.height < 2 THEN 0 ELSE size.height - 2

\* A render pass that slices at the stored offset, without the clamp.
ui_unclamped(app, input, scroll, size) ==
    LET height == pane_height(size)
    IN  [size |-> size,
         height |-> height,
         count |-> Len(input.messages),
         clamped_scroll |-> scroll.vertical_scroll,
         visible_messages |-> take(skip(input.messages, scroll.vertical_scroll), height),
         popup |-> app.show_popup,
         cursor_set |-> app.show_popup /\ input.input_mode = "Editing"]

ui(app, input, scroll, size) ==
    LET height == pane_height(size)
        max_scroll == max_scroll_of(input, height)
        clamped_scroll == Min(scroll.vertical_scroll, max_scroll)
        visible_messages == take(skip(input.messages, clamped_scroll), height)
    IN  [size |-> size,
         height |-> height,
         count |-> Len(input.messages),
         clamped_scroll |-> clamped_scroll,
         visible_messages |-> visible_messages,
         popup |-> app.show_popup,
         cursor_set |-> app.show_popup /\ input.input_mode = "Editing"]

\* ---------------------------------------------------------------- the state

VARIABLES
    pc,             \* where main (or run_app inside it) stands
    setup,          \* the terminal modes entered so far
    teardown,       \* the teardown steps executed so far
    terminal_size,  \* run_app's local terminal_size: <<>> outside its scope
    app, input, scroll,  \* run_app's App, Input and ScrollState
    frame,          \* the locals of this iteration's ui call: <<>> before it
    hidden_cursor,  \* the Terminal's hidden_cursor: the last draw hid the cursor
    res,            \* main's local res, the result of run_app
    ret,            \* what main returned (or that it panicked)
    stdout          \* the lines printed to standard output

vars == <<pc, setup, teardown, terminal_size, app, input, scroll,
          frame, hidden_cursor, res, ret, stdout>>

Ok == <<"Ok">>
Err(op) == <<"Err", op>>
Pending == <<"pending">>
Panicked == <<"panic">>
IsErr(r) == r[1] = "Err"

SetupSteps == {"enable_raw_mode", "EnterAlternateScreen", "EnableMouseCapture"}
TeardownSteps ==
    {"disable_raw_mode", "LeaveAlternateScreen", "DisableMouseCapture", "show_cursor"}

\* The exit status of the process: 0 when main returns Ok(()), 1 when it
\* returns Err (the runtime prints the error to standard error), 101 on a panic.
ExitStatus == IF ret = Ok THEN 0 ELSE IF IsErr(ret) THEN 1 ELSE 101

Init ==
    /\ pc = "enable_raw_mode"
    /\ setup = {}
    /\ teardown = {}
    /\ terminal_size = <<>>
    /\ app = AppNew
    /\ input = InputDefault
    /\ scroll = ScrollStateDefault
    /\ frame = <<>>
    /\ hidden_cursor = FALSE
    /\ res = Pending
    /\ ret = Pending
    /\ stdout = <<>>

\* ------------------------------------------------------------ main: setup

\* main returns the error of a failed step at once (the ? operator).
MainFails(op) ==
    /\ ret' = Err(op)
    /\ pc' = "exited"

EnableRawMode ==
    /\ pc = "enable_raw_mode"
    /\ setup' = setup \cup {"enable_raw_mode"}
    /\ pc' = "enter_screen"
    /\ UNCHANGED <<teardown, terminal_size, app, input, scroll, frame,
                   res, ret, stdout, hidden_cursor>>

EnableRawModeFails ==
    /\ pc = "enable_raw_mode"
    /\ MainFails("enable_raw_mode")
    /\ UNCHANGED <<setup, teardown, terminal_size, app, input, scroll,
                   frame, res, stdout, hidden_cursor>>

EnterScreen ==
    /\ pc = "enter_screen"
    /\ setup' = setup \cup {"EnterAlternateScreen", "EnableMouseCapture"}
    /\ pc' = "terminal_new"
    /\ UNCHANGED <<teardown, terminal_size, app, input, scroll, frame,
                   res, ret, stdout, hidden_cursor>>

\* execute! writes its commands in order: a failure leaves a prefix of them done.
EnterScreenFails ==
    /\ pc = "enter_screen"
    /\ \E done \in {{}, {"EnterAlternateScreen"},
                    {"EnterAlternateScreen", "EnableMouseCapture"}} :
           setup' = setup \cup done
    /\ MainFails("enter_screen")
    /\ UNCHANGED <<teardown, terminal_size, app, input, scroll, frame,
                   res, stdout, hidden_cursor>>

\* Terminal's Drop, run when main returns or unwinds while terminal is alive:
\* if self.hidden_cursor it shows the cursor again (which can fail too); done
\* are the teardown steps executed before it.
TerminalDropped(done) ==
    \E shown \in (IF hidden_cursor THEN {TRUE, FALSE} ELSE {FALSE}) :
        /\ teardown' = (IF shown THEN done \cup {"show_cursor"} ELSE done)
        /\ hidden_cursor' = (hidden_cursor /\ ~shown)

\* Terminal::new(backend)?: the new Terminal's hidden_cursor is false.
TerminalNew ==
    /\ pc = "terminal_new"
    /\ pc' = "size"
    /\ hidden_cursor' = FALSE
    /\ UNCHANGED <<setup, teardown, terminal_size, app, input, scroll,
                   frame, res, ret, stdout>>

TerminalNewFails ==
    /\ pc = "terminal_new"
    /\ MainFails("terminal_new")
    /\ UNCHANGED <<setup, teardown, terminal_size, app, input, scroll,
                   frame, res, stdout, hidden_cursor>>

\* ------------------------------------------------------------------ run_app

\* run_app returns r: its locals go out of scope and main goes on to teardown.
RunAppReturns(r) ==
    /\ res' = r
    /\ pc' = "disable_raw_mode"
    /\ terminal_size' = <<>>
    /\ frame' = <<>>

\* terminal.size()?: the terminal's size is the environment's and may change
\* between any two queries (a resize), so each query yields some size.
Size ==
    /\ pc = "size"
    /\ \E size \in Sizes : terminal_size' = <<size>>
    /\ pc' = "draw"
    /\ UNCHANGED <<setup, teardown, app, input, scroll, frame, res,
                   ret, stdout, hidden_cursor>>

SizeFails ==
    /\ pc = "size"
    /\ RunAppReturns(Err("size"))
    /\ UNCHANGED <<setup, teardown, app, input, scroll, ret, stdout, hidden_cursor>>

\* terminal.draw(|f| ui(...))?: the frame has the terminal's size of that
\* moment; after ui, draw shows the cursor where f.set_cursor put it, or hides
\* it when ui did not set it.
Draw ==
    /\ pc = "draw"
    /\ \E size \in Sizes : frame' = <<ui(app, input, scroll, size)>>
    /\ hidden_cursor' = ~frame'[1].cursor_set
    /\ pc' = "read"
    /\ UNCHANGED <<setup, teardown, terminal_size, app, input, scroll,
                   res, ret, stdout>>

\* draw fails before or after it has shown or hidden the cursor.
DrawFails ==
    /\ pc = "draw"
    /\ RunAppReturns(Err("draw"))
    /\ \E size \in Sizes :
           hidden_cursor' \in {hidden_cursor, ~ui(app, input, scroll, size).cursor_set}
    /\ UNCHANGED <<setup, teardown, app, input, scroll, ret, stdout>>

\* The characters held by the buffer and the log together.
RECURSIVE total_chars(_)
total_chars(msgs) ==
    IF msgs = <<>> THEN 0 ELSE Len(Head(msgs)) + total_chars(Tail(msgs))

\* The events the model offers: typing stops at MaxChars characters and
\* submitting at MaxMsgs entries.
Offered(ev) ==
    IF ev.type = "Key" /\ ev.kind = "Press" /\ input.input_mode = "Editing"
    THEN /\ (ev.code = "Char" /\ ev.ch \in TypedChars /\ ~ev.ctrl)
                => Len(input.input) + total_chars(input.messages) < MaxChars
         /\ ev.code = "Enter" => Len(input.messages) < MaxMsgs
    ELSE TRUE

LoopState == [app |-> app, input |-> input, scroll |-> scroll, flow |-> "continue"]

\* The end of an iteration whose handler left the loop state st; a panic
\* unwinds main and drops the terminal.
Dispatched(st) ==
    /\ app' = st.app
    /\ input' = st.input
    /\ scroll' = st.scroll
    /\ IF st.flow = "return"
       THEN RunAppReturns(Ok) /\ UNCHANGED <<ret, teardown, hidden_cursor>>
       ELSE IF st.flow = "panic"
       THEN /\ pc' = "panicked"
            /\ ret' = Panicked
            /\ TerminalDropped(teardown)
            /\ UNCHANGED <<terminal_size, frame, res>>
       ELSE /\ pc' = "size"
            /\ terminal_size' = <<>>
            /\ frame' = <<>>
            /\ UNCHANGED <<res, ret, teardown, hidden_cursor>>

\* if let Event::Key(key) = event::read()? { ... }
ReadKey ==
    /\ pc = "read"
    /\ \E ev \in KeyEvents :
           /\ Offered(ev)
           /\ Dispatched(on_key(LoopState, terminal_size[1], ev))
    /\ UNCHANGED <<setup, stdout>>

\* The first read returned an event that is no key event: it is dropped and
\* the else-if branch reads again.
ReadNotKey ==
    /\ pc = "read"
    /\ \E ev \in Events : ev.type # "Key"
    /\ pc' = "read2"
    /\ UNCHANGED <<setup, teardown, terminal_size, app, input, scroll,
                   frame, res, ret, stdout, hidden_cursor>>

ReadFails ==
    /\ pc = "read"
    /\ RunAppReturns(Err("read"))
    /\ UNCHANGED <<setup, teardown, app, input, scroll, ret, stdout, hidden_cursor>>

\* else if let Event::Mouse(mouse_event) = event::read()? { ... }
ReadSecondMouse ==
    /\ pc = "read2"
    /\ \E ev \in MouseEvents :
           Dispatched(on_mouse(LoopState, terminal_size[1], ev))
    /\ UNCHANGED <<setup, stdout>>

\* The second read returned an event that is no mouse event: it is dropped.
ReadSecondNotMouse ==
    /\ pc = "read2"
    /\ \E ev \in Events : ev.type # "Mouse"
    /\ Dispatched(LoopState)
    /\ UNCHANGED <<setup, stdout>>

ReadSecondFails ==
    /\ pc = "read2"
    /\ RunAppReturns(Err("read"))
    /\ UNCHANGED <<setup, teardown, app, input, scroll, ret, stdout, hidden_cursor>>

\* --------------------------------------------------------- main: teardown

DisableRawMode ==
    /\ pc = "disable_raw_mode"
    /\ teardown' = teardown \cup {"disable_raw_mode"}
    /\ pc' = "leave_screen"
    /\ UNCHANGED <<setup, terminal_size, app, input, scroll, frame,
                   res, ret, stdout, hidden_cursor>>

DisableRawModeFails ==
    /\ pc = "disable_raw_mode"
    /\ MainFails("disable_raw_mode")
    /\ TerminalDropped(teardown)
    /\ UNCHANGED <<setup, terminal_size, app, input, scroll,
                   frame, res, stdout>>

LeaveScreen ==
    /\ pc = "leave_screen"
    /\ teardown' = teardown \cup {"LeaveAlternateScreen", "DisableMouseCapture"}
    /\ pc' = "show_cursor"
    /\ UNCHANGED <<setup, terminal_size, app, input, scroll, frame,
                   res, ret, stdout, hidden_cursor>>

LeaveScreenFails ==
    /\ pc = "leave_screen"
    /\ \E done \in {{}, {"LeaveAlternateScreen"},
                    {"LeaveAlternateScreen", "DisableMouseCapture"}} :
           TerminalDropped(teardown \cup done)
    /\ MainFails("leave_screen")
    /\ UNCHANGED <<setup, terminal_size, app, input, scroll, frame,
                   res, stdout>>

ShowCursor ==
    /\ pc = "show_cursor"
    /\ teardown' = teardown \cup {"show_cursor"}
    /\ hidden_cursor' = FALSE
    /\ pc' = "report"
    /\ UNCHANGED <<setup, terminal_size, app, input, scroll, frame,
                   res, ret, stdout>>

ShowCursorFails ==
    /\ pc = "show_cursor"
    /\ MainFails("show_cursor")
    /\ TerminalDropped(teardown)
    /\ UNCHANGED <<setup, terminal_size, app, input, scroll,
                   frame, res, stdout>>

\* println!("Bye ..."); if let Err(err) = res { println!("{err:?}") }; Ok(())
Report ==
    /\ pc = "report"
    /\ stdout' = stdout \o <<"Bye from Hyprland Wiki!">>
                        \o (IF IsErr(res) THEN <<res>> ELSE <<>>)
    /\ ret' = Ok
    /\ pc' = "exited"
    /\ TerminalDropped(teardown)
    /\ UNCHANGED <<setup, terminal_size, app, input, scroll,
                   frame, res>>

\* println! panics when standard output cannot be written (a closed pipe):
\* the first println! panics and nothing is printed, or, when res is an error,
\* the first line is printed and the println! of the error panics.
ReportPanics ==
    /\ pc = "report"
    /\ \E printed \in 0..(IF IsErr(res) THEN 1 ELSE 0) :
           stdout' = stdout \o (IF printed = 1 THEN <<"Bye from Hyprland Wiki!">>
                                              ELSE <<>>)
    /\ ret' = Panicked
    /\ pc' = "panicked"
    /\ TerminalDropped(teardown)
    /\ UNCHANGED <<setup, terminal_size, app, input, scroll,
                   frame, res>>

Next ==
    \/ EnableRawMode \/ EnableRawModeFails
    \/ EnterScreen \/ EnterScreenFails
    \/ TerminalNew \/ TerminalNewFails
    \/ Size \/ SizeFails
    \/ Draw \/ DrawFails
    \/ ReadKey \/ ReadNotKey \/ ReadFails
    \/ ReadSecondMouse \/ ReadSecondNotMouse \/ ReadSecondFails
    \/ DisableRawMode \/ DisableRawModeFails
    \/ LeaveScreen \/ LeaveScreenFails
    \/ ShowCursor \/ ShowCursorFails
    \/ Report \/ ReportPanics

Spec == Init /\ [][Next]_vars

\* ------------------------------------------------------- the loop on a stream

\* run_app from loop state st on a finite stream of events, the terminal's
\* size staying size: the loop state when the stream is used up (the loop
\* blocks in event::read) or the loop has returned or panicked.  An iteration
\* whose first event is no key event reads a second event, and handles it
\* only when it is a mouse event.
RECURSIVE run_app_on(_, _, _)
run_app_on(st, size, events) ==
    IF events = <<>> \/ st.flow # "continue" THEN st
    ELSE IF Head(events).type = "Key"
        THEN run_app_on(on_key(st, size, Head(events)), size, Tail(events))
    ELSE IF Tail(events) = <<>> THEN st
    ELSE IF Head(Tail(events)).type = "Mouse"
        THEN run_app_on(on_mouse(st, size, Head(Tail(events))), size, Tail(Tail(events)))
    ELSE run_app_on(st, size, Tail(Tail(events)))

\* k presses of the Down key in a row.
RECURSIVE scroll_down_times(_, _, _, _)
scroll_down_times(scroll_state, inp, size, k) ==
    IF k = 0 THEN scroll_state
    ELSE LET before == scroll_down_times(scroll_state, inp, size, k - 1)
         IN  scroll_down(before, inp, size)

\* =================================================================== claims

\* C1: terminal teardown runs on every exit path: whenever main has returned
\* after entering raw mode, the alternate screen or mouse capture, all four
\* teardown steps (disable raw mode, leave the alternate screen, disable
\* mouse capture, show the cursor) have been executed.
C1_TeardownOnEveryExit ==
    (pc = "exited" /\ setup # {}) => teardown = TeardownSteps

\* C2: the cursor is a character index: in every state reached by inserts,
\* deletes, cursor moves and submits, 0 <= cursor <= number of characters of
\* the content.
C2_CursorWithinChars ==
    /\ input.cursor_position >= 0
    /\ input.cursor_position <= chars_count(input.input)

\* C3: insert is total and splices at the character index: in every reachable
\* buffer state and for every character c, insert(c) does not fail and yields
\* the first `cursor` characters, then c, then the remaining characters, with
\* the cursor advanced by exactly one.
C3_InsertAtCharIndex ==
    \A c \in TypedChars :
        /\ ~enter_char_panics(input)
        /\ LET after == enter_char(input, c)
           IN  /\ after.input = take(input.input, input.cursor_position) \o <<c>>
                                    \o skip(input.input, input.cursor_position)
               /\ after.cursor_position = input.cursor_position + 1

\* C4: effective scroll bound: the offset the render pass slices at lies in
\* [0, max(0, entry_count - viewport_height)] for the entry count and the
\* content-pane height of that render, so the slice never starts past the log.
C4_EffectiveScrollBound ==
    frame # <<>> =>
        LET f == frame[1]
            cap == Max(Len(input.messages) - pane_height(f.size), 0)
        IN  /\ f.clamped_scroll >= 0
            /\ f.clamped_scroll <= cap
            /\ f.clamped_scroll <= Len(input.messages)

\* C4's case: the stored offset is past the cap of the current pane (the
\* terminal grew after scrolling) and the render pass has clamped it.
C4_Witness ==
    /\ frame # <<>>
    /\ scroll.vertical_scroll > frame[1].clamped_scroll

\* C5: scroll_down reaches exactly the viewport cap: from offset 0, with the
\* entries of the log and the viewport (the content pane) of the terminal's
\* size, k scroll_downs in a row leave the offset at
\* min(k, max(0, entry_count - viewport_height)).  Stated for a terminal that
\* keeps its size and whose content pane has at least one row.
C5_ScrollDownReachesViewportCap ==
    (pc = "read" /\ frame[1].size = terminal_size[1] /\ frame[1].height >= 1) =>
        \A k \in 0..(Len(input.messages) + 1) :
            scroll_down_times(ScrollStateDefault, input, terminal_size[1], k).vertical_scroll
                = Min(k, Max(Len(input.messages) - pane_height(terminal_size[1]), 0))

\* The event streams C6 is checked on: up to two events.
Streams == {<<e>> : e \in Events} \cup {<<e1, e2>> : e1 \in Events, e2 \in Events}

WheelFor(ev) ==
    IF ev = KeyUp THEN MouseScrollUp ELSE IF ev = KeyDown THEN MouseScrollDown ELSE ev

\* The same scroll offset, and the same mode, buffer, cursor and entry log.
SameAppState(a, b) ==
    /\ a.scroll = b.scroll
    /\ a.input = b.input

\* C6: keyboard and mouse wheel scrolling are equivalent: from every state of
\* the loop and for every event stream, replacing an Up key press by a mouse
\* ScrollUp (or a Down key press by a mouse ScrollDown) at the same position
\* gives the same scroll offset, mode, buffer and entry log once the loop has
\* processed the stream.
C6_WheelEqualsArrowKeys ==
    pc = "read" =>
        \A events \in Streams : \A i \in 1..Len(events) :
            SameAppState(
                run_app_on(LoopState, terminal_size[1], events),
                run_app_on(LoopState, terminal_size[1],
                           [events EXCEPT ![i] = WheelFor(events[i])]))

\* The state part of C7: the flags agree, they start Normal and hidden, and of
\* the events the loop can read only the Ctrl+F key press changes them.
C7_Coupled ==
    /\ app.show_popup <=> (input.input_mode = "Editing")
    /\ pc \in {"enable_raw_mode", "enter_screen", "terminal_new"} =>
           (~app.show_popup /\ input.input_mode = "Normal")
    /\ pc = "read" =>
           \A ev \in KeyEvents :
               LET after == on_key(LoopState, terminal_size[1], ev)
               IN  IF ev = KeyCtrlF
                   THEN /\ after.app.show_popup = ~app.show_popup
                        /\ after.input.input_mode # input.input_mode
                   ELSE /\ after.app.show_popup = app.show_popup
                        /\ after.input.input_mode = input.input_mode
    /\ pc = "read2" =>
           \A ev \in MouseEvents :
               LET after == on_mouse(LoopState, terminal_size[1], ev)
               IN  /\ after.app.show_popup = app.show_popup
                   /\ after.input.input_mode = input.input_mode

\* C7: mode/popup coupling: the program starts Normal with the popup hidden;
\* in every reachable state the popup is visible exactly when the mode is
\* Editing; and a step changes either flag only by flipping both together,
\* which only the handling of the Ctrl+F key press does.
C7_ModePopupCoupling ==
    /\ []C7_Coupled
    /\ [][(app'.show_popup # app.show_popup \/ input'.input_mode # input.input_mode)
            => /\ pc = "read"
               /\ app'.show_popup = ~app.show_popup
               /\ input'.input_mode # input.input_mode]_vars

\* C7's case: Ctrl+F has been pressed and the popup is open for editing.
C7_Witness ==
    /\ pc = "read"
    /\ app.show_popup
    /\ input.input_mode = "Editing"

\* Whether a terminal-mode setup step or the blocking event read has failed.
SetupFailed == ret \in {Err("enable_raw_mode"), Err("enter_screen"), Err("terminal_new")}
ReadFailed == res = Err("read")

\* C8: error reporting via text, not exit status: when main has ended after
\* a failure of a terminal-mode setup step or of the blocking event read, the
\* error has been printed as debug text and the exit status is 0.
C8_ErrorsPrintedExitZero ==
    (pc = "exited" /\ (SetupFailed \/ ReadFailed)) =>
        /\ ExitStatus = 0
        /\ \E i \in 1..Len(stdout) : IsErr(stdout[i])

\* C9: length accounting, operation by operation (the final length is the sum
\* of the steps): in every reachable buffer state an insert makes the content
\* one character longer, a delete_backward with cursor # 0 one character
\* shorter, and a delete_backward at cursor 0 or a cursor move leaves the
\* length as it is.
C9_LengthAccounting ==
    /\ chars_count(delete_char(input).input)
           = chars_count(input.input) - (IF input.cursor_position # 0 THEN 1 ELSE 0)
    /\ chars_count(move_cursor_left(input).input) = chars_count(input.input)
    /\ chars_count(move_cursor_right(input).input) = chars_count(input.input)
    /\ \A c \in TypedChars :
           ~enter_char_panics(input) =>
               chars_count(enter_char(input, c).input) = chars_count(input.input) + 1

\* C10: delete_backward: in every reachable buffer state, with cursor 0 it
\* changes neither content nor cursor; with cursor p > 0 it removes exactly
\* the character at character index p-1, keeps the others in order and sets
\* the cursor to p-1.
C10_DeleteBackward ==
    LET p == input.cursor_position
        s == input.input
        after == delete_char(input)
    IN  IF p = 0 THEN after = input
        ELSE /\ p <= Len(s)
             /\ after.input = SubSeq(s, 1, p - 1) \o SubSeq(s, p + 1, Len(s))
             /\ after.cursor_position = p - 1
             /\ after.messages = input.messages
             /\ after.input_mode = input.input_mode

\* Whether sequence a is a prefix of sequence b.
IsPrefix(a, b) == Len(a) <= Len(b) /\ SubSeq(b, 1, Len(a)) = a

\* The loop state after construction, and the stream of C11's example
\* (Ctrl+F, 'h', 'i', Enter).
InitialLoopState ==
    [app |-> AppNew, input |-> InputDefault, scroll |-> ScrollStateDefault,
     flow |-> "continue"]
TypeHiAndSubmit == <<KeyCtrlF, KeyChar(104), KeyChar(105), KeyEnter>>

\* The state part of C11: of the events the loop can read only Enter in
\* Editing mode changes the log, and the example stream leaves the log
\* <<"hi">> and the buffer empty.
C11_OnlySubmitGrowsLog ==
    /\ pc = "read" =>
           \A ev \in KeyEvents :
               LET after == on_key(LoopState, terminal_size[1], ev).input
               IN  IF ev = KeyEnter /\ input.input_mode = "Editing"
                   THEN /\ after.messages = Append(input.messages, input.input)
                        /\ after.input = <<>>
                        /\ after.cursor_position = 0
                   ELSE after.messages = input.messages
    /\ pc = "read2" =>
           \A ev \in MouseEvents :
               on_mouse(LoopState, terminal_size[1], ev).input.messages = input.messages
    /\ \A size \in Sizes :
           LET after == run_app_on(InitialLoopState, size, TypeHiAndSubmit).input
           IN  /\ after.messages = << <<104, 105>> >>
               /\ after.input = <<>>
               /\ after.cursor_position = 0

\* C11: the entry log is append-only and grows only via submit: in every step
\* the old log is a prefix of the new one; the log changes only in the
\* handling of a key read in Editing mode, by exactly one entry equal to the
\* buffer content just before, leaving the buffer empty and the cursor 0.
C11_LogAppendOnly ==
    /\ []C11_OnlySubmitGrowsLog
    /\ [][/\ IsPrefix(input.messages, input'.messages)
          /\ input'.messages # input.messages =>
                 /\ pc = "read"
                 /\ input.input_mode = "Editing"
                 /\ input'.messages = Append(input.messages, input.input)
                 /\ input'.input = <<>>
                 /\ input'.cursor_position = 0]_vars

\* C11's case: a non-empty text has been submitted as the second entry and
\* the buffer is empty again.
C11_Witness ==
    /\ Len(input.messages) = 2
    /\ input.messages[2] # <<>>
    /\ input.input = <<>>
    /\ input.cursor_position = 0

\* C12: quit is always active and is the only normal termination: a press of
\* 'q' makes the loop return successfully without changing buffer, log, mode,
\* popup or scroll, in Normal and in Editing mode, whatever event the loop
\* consumed just before it; no other key makes the loop return.
C12_QuitAlwaysActive ==
    pc = "read" =>
        LET st == LoopState
            size == terminal_size[1]
        IN  /\ on_key(st, size, KeyQuit) = [st EXCEPT !.flow = "return"]
            /\ \A ev \in KeyEvents \ {KeyQuit} :
                   on_key(st, size, ev).flow # "return"
            /\ \A ev \in Events :
                   LET before == run_app_on(st, size, <<ev>>)
                   IN  before.flow = "continue" =>
                           run_app_on(st, size, <<ev, KeyQuit>>) =
                               [before EXCEPT !.flow = "return"]

\* C13: cursor round trip: with the cursor at p in 0..len (len the number of
\* characters of the buffer), move_left then move_right returns to p when
\* p > 0, move_left is a no-op at 0, move_right is a no-op at len, and
\* neither changes the buffer content.
C13_CursorRoundTrip ==
    LET p == input.cursor_position
        len == chars_count(input.input)
    IN  p <= len =>
            /\ p > 0 => move_cursor_right(move_cursor_left(input)) = input
            /\ p = 0 => move_cursor_left(input) = input
            /\ p = len => move_cursor_right(input) = input
            /\ move_cursor_left(input).input = input.input
            /\ move_cursor_right(input).input = input.input

\* The single dispatch step C14 describes: the one event of an iteration is
\* matched as a key press, as a mouse event, or as neither.
dispatch_one(st, size, ev) ==
    IF ev.type = "Key" THEN on_key(st, size, ev)
    ELSE IF ev.type = "Mouse" THEN on_mouse(st, size, ev)
    ELSE st

\* C14: one event per loop iteration: after the read of an iteration the loop
\* goes on to the next render pass (or leaves the loop) without reading a
\* second event, and the event it consumed is dispatched: its handler's
\* effect is the only change of the iteration.
C14_OneEventPerIteration ==
    /\ [](pc = "read" =>
              \A ev \in Events :
                  run_app_on(LoopState, terminal_size[1], <<ev>>) =
                      dispatch_one(LoopState, terminal_size[1], ev))
    /\ [][pc = "read" => pc' \in {"size", "disable_raw_mode", "panicked"}]_vars

\* The editing keys of C15: character keys other than 'q' and Ctrl+F, Enter,
\* Backspace, Left and Right.
EditingKeys ==
    {KeyChar(c) : c \in TypedChars} \cup {KeyEnter, KeyBackspace, KeyLeft, KeyRight}

\* The loop state in the other input mode.
InOtherMode(st) ==
    [st EXCEPT !.input.input_mode =
                   IF st.input.input_mode = "Normal" THEN "Editing" ELSE "Normal"]

\* The state part of C15, on the key match at every state where the loop
\* reads a key.
C15_InertInNormal ==
    pc = "read" =>
        LET st == LoopState
            size == terminal_size[1]
        IN  /\ input.input_mode = "Normal" =>
                   \A ev \in EditingKeys : on_key(st, size, ev) = st
            /\ \A ev \in {KeyUp, KeyDown} :
                   /\ on_key(st, size, ev).scroll =
                          on_key(InOtherMode(st), size, ev).scroll
                   /\ on_key(st, size, ev) =
                          [st EXCEPT !.scroll = on_key(st, size, ev).scroll]

\* C15: editing keys are inert in Normal mode: Enter, Backspace, Left, Right
\* and character keys other than 'q' and Ctrl+F leave buffer, cursor, log,
\* scroll and mode unchanged; no step taken in Normal mode changes buffer,
\* cursor or log; Up and Down change the scroll offset identically in Normal
\* and Editing mode and change nothing else.
C15_EditingKeysInertInNormalMode ==
    /\ []C15_InertInNormal
    /\ [][input.input_mode = "Normal" =>
              /\ input'.input = input.input
              /\ input'.cursor_position = input.cursor_position
              /\ input'.messages = input.messages]_vars

\* C15's case: the loop reads a key in Normal mode while the buffer holds a
\* draft with the cursor behind it and the log holds an entry, so every
\* editing key would have an effect in Editing mode.
C15_Witness ==
    /\ pc = "read"
    /\ input.input_mode = "Normal"
    /\ input.input # <<>>
    /\ input.cursor_position > 0
    /\ input.messages # <<>>
    /\ \A ev \in EditingKeys :
           on_key(InOtherMode(LoopState), terminal_size[1], ev) # InOtherMode(LoopState)

\* ------------------------------------------------------- the popup geometry

\* The arguments of centered_rect in ui.
PopupPercentX == 40
PopupPercentY == 10

\* Layout::split resolves a Percentage(p) constraint to p/100 of the length
\* and hands the space the constraints leave over to the last chunk.  The
\* cell positions are whole numbers: the layout code either truncates a
\* chunk's position and size, or rounds its two ends to the nearest cell,
\* depending on the version of the library the program is built with.
Roundings == {"truncate", "round"}

\* The [start, size] of a chunk that is not the last one, on an axis that
\* starts at start and is length long: before is the sum of the percentages
\* of the chunks in front of it, percent its own.
percentage_chunk(start, length, before, percent, rounding) ==
    IF rounding = "truncate"
    THEN [start |-> start + (before * length) \div 100,
          size  |-> (percent * length) \div 100]
    ELSE LET from == start + (before * length + 50) \div 100
             to   == start + ((before + percent) * length + 50) \div 100
         IN  [start |-> from, size |-> to - from]

\* centered_rect: the middle chunk of the vertical split of r, of which the
\* middle chunk of the horizontal split is taken.
centered_rect(percent_x, percent_y, r, rounding) ==
    LET popup_layout_1 ==
            percentage_chunk(r.y, r.height, (100 - percent_y) \div 5, percent_y,
                             rounding)
        column ==
            percentage_chunk(r.x, r.width, (100 - percent_x) \div 2, percent_x,
                             rounding)
    IN  [x |-> column.start, y |-> popup_layout_1.start,
         width |-> column.size, height |-> popup_layout_1.size]

\* The terminal sizes the popup is computed for, and the frame's area.
RectSizes ==
    {[width |-> w, height |-> h] :
        w \in (0..MaxRectWidth) \cup {TermWidth}, h \in 0..MaxRectHeight}
FrameArea(size) == [x |-> 0, y |-> 0, width |-> size.width, height |-> size.height]

\* The render pass of the popup on its own: the popup is shown, the frame
\* takes the terminal's size and ui computes the popup's area.
PopupInit ==
    /\ pc = "popup_size"
    /\ setup = SetupSteps
    /\ teardown = {}
    /\ terminal_size = <<>>
    /\ app = [show_popup |-> TRUE]
    /\ input = [InputDefault EXCEPT !.input_mode = "Editing"]
    /\ scroll = ScrollStateDefault
    /\ frame = <<>>
    /\ hidden_cursor = FALSE
    /\ res = Pending
    /\ ret = Pending
    /\ stdout = <<>>

PopupSize ==
    /\ pc = "popup_size"
    /\ \E size \in RectSizes : terminal_size' = <<size>>
    /\ pc' = "popup_draw"
    /\ UNCHANGED <<setup, teardown, app, input, scroll, frame, hidden_cursor,
                   res, ret, stdout>>

PopupDraw ==
    /\ pc = "popup_draw"
    /\ \E rounding \in Roundings :
           frame' = <<[size |-> terminal_size[1],
                       area |-> centered_rect(PopupPercentX, PopupPercentY,
                                              FrameArea(terminal_size[1]), rounding)]>>
    /\ pc' = "popup_drawn"
    /\ UNCHANGED <<setup, teardown, terminal_size, app, input, scroll,
                   hidden_cursor, res, ret, stdout>>

PopupNext == PopupSize \/ PopupDraw

PopupSpec == PopupInit /\ [][PopupNext]_vars

\* The distance of two naturals.
Dist(a, b) == IF a >= b THEN a - b ELSE b - a

\* C16: popup geometry: for every terminal size the popup's rectangle has 40%
\* of the total width and 10% of the total height and is centered on both
\* axes: the space left of it equals the space right of it and the space
\* above equals the space below, all up to one cell of rounding.
C16_PopupCentered ==
    pc = "popup_drawn" =>
        LET size == frame[1].size
            area == frame[1].area
        IN  /\ Dist(100 * area.width, PopupPercentX * size.width) <= 100
            /\ Dist(100 * area.height, PopupPercentY * size.height) <= 100
            /\ Dist(area.x, size.width - (area.x + area.width)) <= 1
            /\ Dist(area.y, size.height - (area.y + area.height)) <= 1

\* k scroll_ups in a row.
RECURSIVE scroll_up_times(_, _)
scroll_up_times(scroll_state, k) ==
    IF k = 0 THEN scroll_state
    ELSE LET before == scroll_up_times(scroll_state, k - 1)
         IN  scroll_up(before)

\* Whether entry i (1 is the first) lies in the window of frame f, i.e. in
\* entries[effective_offset .. effective_offset + pane_height].
InWindow(f, i) ==
    f.clamped_scroll < i /\ i <= f.clamped_scroll + Len(f.visible_messages)

\* C17: every entry can be scrolled into view: on a terminal that keeps its
\* size and whose content pane has at least one row, for every entry i there
\* is a sequence of scroll_ups and scroll_downs after which the render pass
\* shows entry i; and after scroll_down has saturated the last entry is shown.
C17_EveryEntryReachable ==
    (pc = "read" /\ frame[1].size = terminal_size[1] /\ frame[1].height >= 1) =>
        LET size == terminal_size[1]
            n == Len(input.messages)
            after(ups, downs) ==
                ui(app, input,
                   scroll_down_times(scroll_up_times(scroll, ups), input, size, downs),
                   size)
        IN  /\ \A i \in 1..n :
                   \E ups \in 0..scroll.vertical_scroll : \E downs \in 0..n :
                       InWindow(after(ups, downs), i)
            /\ n >= 1 => InWindow(after(0, n), n)

\* C18: scroll-up is always responsive: whenever the frame just rendered
\* shows an effective offset above 0, one scroll_up (Up key or wheel) makes
\* the effective offset of the next render pass, on the same terminal size
\* and log, exactly one smaller.
C18_ScrollUpResponsive ==
    (pc = "read" /\ frame[1].clamped_scroll > 0) =>
        \A up \in {on_key(LoopState, terminal_size[1], KeyUp),
                   on_mouse(LoopState, terminal_size[1], MouseScrollUp)} :
            ui(up.app, up.input, up.scroll, frame[1].size).clamped_scroll
                = frame[1].clamped_scroll - 1

\* The state part of C19, on the key match at every state where the loop
\* reads a key: Ctrl+F changes nothing but the popup flag and the mode.
C19_ToggleKeepsDraft ==
    pc = "read" =>
        LET after == on_key(LoopState, terminal_size[1], KeyCtrlF)
        IN  /\ after.input.input = input.input
            /\ after.input.cursor_position = input.cursor_position
            /\ after.input.messages = input.messages
            /\ after.scroll = scroll
            /\ after.flow = "continue"
            /\ after.app.show_popup # app.show_popup

\* C19: the draft survives closing the popup: a step that shows or hides the
\* popup (Ctrl+F) leaves buffer content, cursor, log and scroll unchanged, in
\* both directions; a step that empties a buffer of two or more characters is
\* a submit (the log gains the buffer's content).
C19_DraftSurvivesPopup ==
    /\ []C19_ToggleKeepsDraft
    /\ [][/\ app'.show_popup # app.show_popup =>
                 /\ input'.input = input.input
                 /\ input'.cursor_position = input.cursor_position
                 /\ input'.messages = input.messages
                 /\ scroll' = scroll
          /\ (Len(input.input) >= 2 /\ input'.input = <<>>) =>
                 input'.messages = Append(input.messages, input.input)]_vars

\* C19's case: the popup has been closed over a draft: it is hidden, the mode
\* is Normal, and the buffer still holds text with the cursor behind it.
C19_Witness ==
    /\ ~app.show_popup
    /\ input.input_mode = "Normal"
    /\ Len(input.input) >= 2
    /\ input.cursor_position = Len(input.input)

====
